---------------------------- MODULE Spec2Model ----------------------------
(***************************************************************************)
(* A model of src/kafka/kafka.go: the kafka AsyncMessageSource             *)
(* (ConsumeMessages) and AsyncMessageSink (PublishMessages).               *)
(*                                                                         *)
(* The consumer session is the specification Spec.  Its environment is the *)
(* broker (c.Messages(), c.Errors(), c.Close()), the context and the       *)
(* caller, who owns the delivery stream `messages` and the acknowledgment  *)
(* stream `acks`; both streams are Go channels whose capacity the caller   *)
(* chooses.  A PublishMessages call is the specification PublishSpec; its  *)
(* environment is the sarama producer, the context and the caller.         *)
(***************************************************************************)
EXTENDS Integers, Sequences, FiniteSets, TLC

(***************************************************************************)
(* Bounds of the model.                                                    *)
(***************************************************************************)
\* offsets 0 .. MaxOffset-1 exist in every partition
MaxOffset == 3
\* acknowledgments the caller sends in one session
MaxAcks == 4

\* messages the caller offers to PublishMessages
MaxMsgs == 5
\* messages the broker producer holds between Input() and their outcome
MaxInflight == 2
\* events a channel of the broker producer holds before its sender blocks
ChanBuf == 1

\* partitions of the topic
Partitions == {0, 1}
\* capacities the caller may give the delivery and acknowledgment channels
Capacities == {0, 1}
\* consumption sessions: one that terminates and the fresh one after it
Sessions == {1, 2}

(***************************************************************************)
(* Messages.  A consumerMessage is a pointer wrapping one broker message:  *)
(* its identity is the handle, which is distinct for every delivery (the   *)
(* session is part of it: a redelivered broker message is a new handle).   *)
(***************************************************************************)
consumerMessage(p, o, s) == [partition |-> p, offset |-> o, sess |-> s]

\* the nil substrate.Message / nil pointer
NilMsg == [partition |-> -1, offset |-> -1, sess |-> 0]

\* a message of the caller's own making, never delivered by this source
ForeignMsg == [partition |-> -1, offset |-> 0, sess |-> 0]

Range(s) == {s[i] : i \in 1..Len(s)}

IsPrefix(a, b) == Len(a) <= Len(b) /\ \A i \in 1..Len(a) : a[i] = b[i]

(***************************************************************************)
(* The return value of ConsumeMessages: how the call ended (via) and the   *)
(* error it returned.                                                      *)
(***************************************************************************)
Running == [via |-> "running", kind |-> "none", Acked |-> NilMsg, Expected |-> NilMsg]

NilError(via) == [via |-> via, kind |-> "nil", Acked |-> NilMsg, Expected |-> NilMsg]

OtherError(via, kind) == [via |-> via, kind |-> kind, Acked |-> NilMsg, Expected |-> NilMsg]

InvalidAckError(acked, expected) ==
    [via |-> "ack", kind |-> "InvalidAckError", Acked |-> acked, Expected |-> expected]

\* no acknowledgment was taken from `acks` yet
NoAck == [seen |-> FALSE, ack |-> NilMsg, head |-> NilMsg, ncommits |-> 0]

VARIABLES
    pc,          \* position of ConsumeMessages: start, select, sending, done
    cur,         \* the message of the pending delivery send (line 225)
    forAcking,   \* the ledger (line 219)
    msgChan,     \* buffer of the delivery stream `messages`
    ackChan,     \* buffer of the acknowledgment stream `acks`
    msgCap,      \* capacity of `messages`
    ackCap,      \* capacity of `acks`
    received,    \* messages the caller received from `messages`, in order
    accepted,    \* acknowledgments accepted without error, in order
    commits,     \* the MarkOffset calls of the session, in order
    committed,   \* the broker's committed position of each partition
    brokerNext,  \* the next offset the broker delivers, per partition
    ctxDone,     \* the context is cancelled
    errState,    \* c.Errors(): none, pending, taken
    rerr,        \* the return value
    closeCalls,  \* number of c.Close() calls
    acksSent,    \* acknowledgments the caller sent in this session
    sess,        \* the session
    ackSeen,     \* the last acknowledgment taken from `acks`, with the ledger
                 \* head and the number of commits at that moment
    prevUnacked  \* the ledger of the terminated previous session

\* the state of a ConsumeMessages session
cvars == <<pc, cur, forAcking, msgChan, ackChan, msgCap, ackCap, received,
           accepted, commits, committed, brokerNext, ctxDone, errState, rerr,
           closeCalls, acksSent, sess, ackSeen, prevUnacked>>

VARIABLES
    ppc,         \* position of PublishMessages: start, select, input, closing,
                 \* done
    message,     \* the message of the pending send on `input` (line 87)
    nextMsg,     \* the next message the caller offers on `messages`
    input,       \* buffer of producer.Input()
    inflight,    \* messages the broker client took from `input`, no outcome yet
    successes,   \* buffer of producer.Successes()
    errs,        \* buffer of producer.Errors()
    signalled,   \* messages whose success the broker signalled, in order
    fpc,         \* position of the forwarder goroutine: idle (not started),
                 \* range, send, exit
    suc,         \* the success the forwarder is sending on `acks` (line 80)
    acksOut,     \* messages emitted on the acknowledgment stream, in order
    producer,    \* the broker producer: none, open, closing, closed
    pubCtxDone,  \* the context of PublishMessages is cancelled
    pubErr,      \* the return value of PublishMessages
    closeErrs,   \* error events Close collected
    doomed,      \* the messages of `inflight` whose send fails
    callerDrains \* the caller still receives from the acknowledgment stream

\* the state of a PublishMessages call
pvars == <<ppc, message, nextMsg, input, inflight, successes, errs, signalled,
           fpc, suc, acksOut, producer, pubCtxDone, pubErr, closeErrs, doomed,
           callerDrains>>

vars == <<cvars, pvars>>

(***************************************************************************)
(* Pure parts of ConsumeMessages.                                          *)
(***************************************************************************)

\* faulty variant: an acknowledgment of any ledger entry is taken as a match
AckCaseAnyEntry(ledger, ack) ==
    IF Len(ledger) = 0 THEN "empty"
    ELSE IF ack \notin Range(ledger) THEN "mismatch"
    ELSE "match"

\* the payloads of the topic: the two partitions hold the same payload at
\* the same offset
Value(p, o) == o

\* lines 203-205: Data() is the Value of the wrapped broker message
Data(m) == Value(m.partition, m.offset)

\* faulty variant: the acknowledgment is compared with the head by payload
AckCaseByContent(ledger, ack) ==
    IF Len(ledger) = 0 THEN "empty"
    ELSE IF Data(ack) # Data(ledger[1]) THEN "mismatch"
    ELSE "match"

\* the switch of lines 237-251: which case an acknowledgment falls in
AckCase(ledger, ack) ==
    IF Len(ledger) = 0 THEN "empty"
    ELSE IF ack # ledger[1] THEN "mismatch"
    ELSE "match"

\* faulty variant: the empty-ledger error names the acknowledged message as expected
EmptyLedgerErrorExpectsAcked(ack) == InvalidAckError(ack, ack)

\* lines 239-242: the error for an acknowledgment on an empty ledger
EmptyLedgerError(ack) == InvalidAckError(ack, NilMsg)

\* faulty variant: Acked and Expected are swapped
MismatchErrorSwapped(ledger, ack) == InvalidAckError(ledger[1], ack)

\* lines 244-247: the error for an acknowledgment that is not the head
MismatchError(ledger, ack) == InvalidAckError(ack, ledger[1])

\* faulty variant: the newest ledger entry is marked instead of the head
CommitTargetNewest(ledger) == ledger[Len(ledger)]

\* line 249: the message whose offset is marked
CommitTarget(ledger) == ledger[1]

\* line 249: c.MarkOffset(msg, ""): the call, as (partition, offset)
MarkOffset(m) == [partition |-> m.partition, offset |-> m.offset]

\* line 249: the committed position MarkOffset leaves in the broker's store:
\* the offset after the marked message, never moved backwards
MarkedPosition(store, m) ==
    IF store[m.partition] <= m.offset
    THEN [store EXCEPT ![m.partition] = m.offset + 1]
    ELSE store

\* faulty variant: the newest entry is dropped instead of the head
PopNewest(ledger) == SubSeq(ledger, 1, Len(ledger) - 1)

\* line 250: forAcking = forAcking[1:]
PopHead(ledger) == SubSeq(ledger, 2, Len(ledger))

\* faulty variant: the message is put in front of the ledger
PrependLedger(ledger, m) == <<m>> \o ledger

\* line 235: forAcking = append(forAcking, message)
AppendLedger(ledger, m) == Append(ledger, m)

\* faulty variant: the message is appended although its send was abandoned
LedgerAppendedOnCancelledSend(ledger, m) == Append(ledger, m)

\* lines 230-231: the ledger when cancellation wins the delivery send
LedgerOnCancelledSend(ledger, m) == ledger

\* faulty variant: no deferred Close
NoDeferredClose(n) == n

\* lines 215-217: the deferred c.Close() runs on every return after line 210
DeferredClose(n) == n + 1

\* lines 231 and 256: return c.Close(): the error returned is Close's result
CancelResult(via, closeKind) ==
    IF closeKind = "nil" THEN NilError(via) ELSE OtherError(via, closeKind)

\* what c.Close() may return
CloseOutcomes == {"nil", "CloseError"}

(***************************************************************************)
(* The consumer session.                                                   *)
(***************************************************************************)
CInit ==
    /\ pc = "start"
    /\ cur = NilMsg
    /\ forAcking = <<>>
    /\ msgChan = <<>>
    /\ ackChan = <<>>
    /\ msgCap \in Capacities
    /\ ackCap \in Capacities
    /\ received = <<>>
    /\ accepted = <<>>
    /\ commits = <<>>
    /\ committed = [p \in Partitions |-> 0]
    /\ brokerNext = [p \in Partitions |-> 0]
    /\ ctxDone = FALSE
    /\ errState = "none"
    /\ rerr = Running
    /\ closeCalls = 0
    /\ acksSent = 0
    /\ sess = 1
    /\ ackSeen = NoAck
    /\ prevUnacked = {}

\* lines 210-213: cluster.NewConsumerFromClient fails: return err, no handle
NewConsumerFails ==
    /\ pc = "start"
    /\ pc' = "done"
    /\ rerr' = OtherError("new", "BrokerError")
    /\ UNCHANGED <<cur, forAcking, msgChan, ackChan, msgCap, ackCap, received,
                   accepted, commits, committed, brokerNext, ctxDone, errState,
                   closeCalls, acksSent, sess, ackSeen, prevUnacked, pvars>>

\* lines 210-219: the handle is created, the ledger is empty
NewConsumer ==
    /\ pc = "start"
    /\ pc' = "select"
    /\ forAcking' = <<>>
    /\ UNCHANGED <<cur, msgChan, ackChan, msgCap, ackCap, received, accepted,
                   commits, committed, brokerNext, ctxDone, errState, rerr,
                   closeCalls, acksSent, sess, ackSeen, prevUnacked, pvars>>

\* lines 223-227: a message arrives on c.Messages() and is wrapped; the
\* broker delivers each partition in offset order, partitions interleave
RecvBrokerMessage ==
    /\ pc = "select"
    /\ \E p \in Partitions :
         /\ brokerNext[p] < MaxOffset
         /\ cur' = consumerMessage(p, brokerNext[p], sess)
         /\ brokerNext' = [brokerNext EXCEPT ![p] = @ + 1]
    /\ pc' = "sending"
    /\ UNCHANGED <<forAcking, msgChan, ackChan, msgCap, ackCap, received,
                   accepted, commits, committed, ctxDone, errState, rerr,
                   closeCalls, acksSent, sess, ackSeen, prevUnacked, pvars>>

\* lines 232-235: the delivery send completes into the channel's buffer,
\* then the message is appended to the ledger
SendBuffered ==
    /\ pc = "sending"
    /\ Len(msgChan) < msgCap
    /\ msgChan' = Append(msgChan, cur)
    /\ forAcking' = AppendLedger(forAcking, cur)
    /\ cur' = NilMsg
    /\ pc' = "select"
    /\ UNCHANGED <<ackChan, msgCap, ackCap, received, accepted, commits,
                   committed, brokerNext, ctxDone, errState, rerr, closeCalls,
                   acksSent, sess, ackSeen, prevUnacked, pvars>>

\* lines 232-235: the delivery send completes by handing the message to the
\* caller, who is receiving; then the message is appended to the ledger
SendToReceiver ==
    /\ pc = "sending"
    /\ msgChan = <<>>
    /\ received' = Append(received, cur)
    /\ forAcking' = AppendLedger(forAcking, cur)
    /\ cur' = NilMsg
    /\ pc' = "select"
    /\ UNCHANGED <<msgChan, ackChan, msgCap, ackCap, accepted, commits,
                   committed, brokerNext, ctxDone, errState, rerr, closeCalls,
                   acksSent, sess, ackSeen, prevUnacked, pvars>>

\* lines 229-231: cancellation wins the delivery send: return c.Close(),
\* then the deferred Close
SendCancelled ==
    /\ pc = "sending"
    /\ ctxDone
    /\ \E k \in CloseOutcomes : rerr' = CancelResult("sendctx", k)
    /\ forAcking' = LedgerOnCancelledSend(forAcking, cur)
    /\ closeCalls' = DeferredClose(closeCalls + 1)
    /\ pc' = "done"
    /\ UNCHANGED <<cur, msgChan, ackChan, msgCap, ackCap, received, accepted,
                   commits, committed, brokerNext, ctxDone, errState, acksSent,
                   sess, ackSeen, prevUnacked, pvars>>

\* lines 236-251: the switch on an acknowledgment taken from `acks`
HandleAck(ack) ==
  /\ ackSeen' = [seen |-> TRUE, ack |-> ack,
                 head |-> IF forAcking = <<>> THEN NilMsg ELSE Head(forAcking),
                 ncommits |-> Len(commits)]
  /\
    CASE AckCase(forAcking, ack) = "empty" ->
           /\ rerr' = EmptyLedgerError(ack)
           /\ closeCalls' = DeferredClose(closeCalls)
           /\ pc' = "done"
           /\ UNCHANGED <<forAcking, accepted, commits, committed>>
      [] AckCase(forAcking, ack) = "mismatch" ->
           /\ rerr' = MismatchError(forAcking, ack)
           /\ closeCalls' = DeferredClose(closeCalls)
           /\ pc' = "done"
           /\ UNCHANGED <<forAcking, accepted, commits, committed>>
      [] OTHER ->
           /\ commits' = Append(commits, MarkOffset(CommitTarget(forAcking)))
           /\ committed' = MarkedPosition(committed, CommitTarget(forAcking))
           /\ forAcking' = PopHead(forAcking)
           /\ accepted' = Append(accepted, ack)
           /\ UNCHANGED <<rerr, closeCalls, pc>>

\* line 236: an acknowledgment is taken from the buffer of `acks`
RecvAckBuffered ==
    /\ pc = "select"
    /\ ackChan # <<>>
    /\ HandleAck(Head(ackChan))
    /\ ackChan' = Tail(ackChan)
    /\ UNCHANGED <<cur, msgChan, msgCap, ackCap, received, brokerNext, ctxDone,
                   errState, acksSent, sess, prevUnacked, pvars>>

\* the fresh session after a terminated one is followed only as far as its
\* deliveries: acknowledgments, cancellation and broker errors are inputs of
\* the first session
InputsOpen == sess = 1

\* what the caller can acknowledge: a handle it received, or a message of
\* its own
Ackable == Range(received) \cup {ForeignMsg}

\* line 236: an acknowledgment is taken from the caller, who is sending it
RecvAckFromSender ==
    /\ InputsOpen
    /\ pc = "select"
    /\ ackChan = <<>>
    /\ acksSent < MaxAcks
    /\ \E ack \in Ackable : HandleAck(ack)
    /\ acksSent' = acksSent + 1
    /\ UNCHANGED <<cur, msgChan, ackChan, msgCap, ackCap, received, brokerNext,
                   ctxDone, errState, sess, prevUnacked, pvars>>

\* lines 253-254: an error is taken from c.Errors() and returned
RecvBrokerError ==
    /\ pc = "select"
    /\ errState = "pending"
    /\ errState' = "taken"
    /\ rerr' = OtherError("errs", "BrokerError")
    /\ closeCalls' = DeferredClose(closeCalls)
    /\ pc' = "done"
    /\ UNCHANGED <<cur, forAcking, msgChan, ackChan, msgCap, ackCap, received,
                   accepted, commits, committed, brokerNext, ctxDone, acksSent,
                   sess, ackSeen, prevUnacked, pvars>>

\* lines 255-256: cancellation in the event loop: return c.Close(), then the
\* deferred Close
SelectCancelled ==
    /\ pc = "select"
    /\ ctxDone
    /\ \E k \in CloseOutcomes : rerr' = CancelResult("ctx", k)
    /\ closeCalls' = DeferredClose(closeCalls + 1)
    /\ pc' = "done"
    /\ UNCHANGED <<cur, forAcking, msgChan, ackChan, msgCap, ackCap, received,
                   accepted, commits, committed, brokerNext, ctxDone, errState,
                   acksSent, sess, ackSeen, prevUnacked, pvars>>

(***************************************************************************)
(* The environment of the session.                                         *)
(***************************************************************************)

\* the caller receives the next buffered message from `messages` (what the
\* caller does once the call has returned is not part of the session)
CallerReceive ==
    /\ pc # "done"
    /\ msgChan # <<>>
    /\ received' = Append(received, Head(msgChan))
    /\ msgChan' = Tail(msgChan)
    /\ UNCHANGED <<pc, cur, forAcking, ackChan, msgCap, ackCap, accepted,
                   commits, committed, brokerNext, ctxDone, errState, rerr,
                   closeCalls, acksSent, sess, ackSeen, prevUnacked, pvars>>

\* the caller's send on `acks` completes into the channel's buffer
CallerAck ==
    /\ InputsOpen
    /\ pc # "done"
    /\ Len(ackChan) < ackCap
    /\ acksSent < MaxAcks
    /\ \E ack \in Ackable : ackChan' = Append(ackChan, ack)
    /\ acksSent' = acksSent + 1
    /\ UNCHANGED <<pc, cur, forAcking, msgChan, msgCap, ackCap, received,
                   accepted, commits, committed, brokerNext, ctxDone, errState,
                   rerr, closeCalls, sess, ackSeen, prevUnacked, pvars>>

\* the context is cancelled
Cancel ==
    /\ InputsOpen
    /\ pc # "done"
    /\ ~ctxDone
    /\ ctxDone' = TRUE
    /\ UNCHANGED <<pc, cur, forAcking, msgChan, ackChan, msgCap, ackCap,
                   received, accepted, commits, committed, brokerNext, errState,
                   rerr, closeCalls, acksSent, sess, ackSeen, prevUnacked, pvars>>

\* the broker client signals an error on c.Errors()
BrokerFault ==
    /\ InputsOpen
    /\ pc \in {"select", "sending"}
    /\ errState = "none"
    /\ errState' = "pending"
    /\ UNCHANGED <<pc, cur, forAcking, msgChan, ackChan, msgCap, ackCap,
                   received, accepted, commits, committed, brokerNext, ctxDone,
                   rerr, closeCalls, acksSent, sess, ackSeen, prevUnacked, pvars>>

\* the broker messages of the session that were delivered and not
\* acknowledged: those of the ledger
Unacked == {MarkOffset(m) : m \in Range(forAcking)}

\* lines 208-219: a fresh ConsumeMessages call of the same consumer group
\* after the session terminated: the broker resumes every partition from its
\* committed position; context and channels are new
Restart ==
    /\ pc = "done"
    /\ sess + 1 \in Sessions
    /\ sess' = sess + 1
    /\ prevUnacked' = Unacked
    /\ brokerNext' = committed
    /\ pc' = "start"
    /\ cur' = NilMsg
    /\ forAcking' = <<>>
    /\ msgChan' = <<>>
    /\ ackChan' = <<>>
    /\ received' = <<>>
    /\ accepted' = <<>>
    /\ commits' = <<>>
    /\ ctxDone' = FALSE
    /\ errState' = "none"
    /\ rerr' = Running
    /\ closeCalls' = 0
    /\ acksSent' = 0
    /\ ackSeen' = NoAck
    /\ UNCHANGED <<msgCap, ackCap, committed, pvars>>

CNext ==
    \/ NewConsumerFails
    \/ NewConsumer
    \/ RecvBrokerMessage
    \/ SendBuffered
    \/ SendToReceiver
    \/ SendCancelled
    \/ RecvAckBuffered
    \/ RecvAckFromSender
    \/ RecvBrokerError
    \/ SelectCancelled
    \/ CallerReceive
    \/ CallerAck
    \/ Cancel
    \/ BrokerFault
    \/ Restart

(***************************************************************************)
(* PublishMessages.  The caller offers the distinct messages 1 .. MaxMsgs  *)
(* on `messages`.  The broker producer takes messages from Input() and     *)
(* signals, for each, a success on Successes() (carrying the message as    *)
(* Metadata) or an error on Errors(), in any order.  producer.Close()      *)
(* shuts the producer down: it flushes what it holds, collects the events  *)
(* of Errors() and returns them, discards the events left on Successes()   *)
(* with a reader of its own, and closes the channels.                      *)
(***************************************************************************)
PRunning == [via |-> "running", kind |-> "none", of |-> 0]

\* line 100: return nil
LoopCancelled == [via |-> "ctx", kind |-> "nil", of |-> 0]

\* lines 101-102: return err, the send error of message m
LoopError(m) == [via |-> "errs", kind |-> "ProducerError", of |-> m]

\* what producer.Close() returns after collecting n error events
CloseResult(n) == IF n > 0 THEN "ProducerErrors" ELSE "nil"

\* lines 65-70: the loop's error if there is one, else the result of Close
PublishResult(loop, closeKind) ==
    IF loop.kind # "nil" THEN loop ELSE [loop EXCEPT !.kind = closeKind]

\* line 81: what the forwarder sends on `acks` for a success: its Metadata
AckOf(success) == success

\* faulty variant: the acknowledgment overtakes those emitted before it
EmitAckFirst(out, m) == <<m>> \o out

\* lines 80-82: one goroutine sends the acknowledgments one after the other
EmitAck(out, m) == Append(out, m)

\* line 97: the Metadata attached to the broker message built for m
MetadataOf(m) == m

PInit ==
    /\ ppc = "start"
    /\ message = 0
    /\ nextMsg = 1
    /\ input = <<>>
    /\ inflight = {}
    /\ successes = <<>>
    /\ errs = <<>>
    /\ signalled = <<>>
    /\ fpc = "idle"
    /\ suc = 0
    /\ acksOut = <<>>
    /\ producer = "none"
    /\ pubCtxDone = FALSE
    /\ pubErr = PRunning
    /\ closeErrs = 0
    /\ doomed = {}
    /\ callerDrains = TRUE

\* lines 60-63: sarama.NewAsyncProducerFromClient fails
NewProducerFails ==
    /\ ppc = "start"
    /\ ppc' = "done"
    /\ pubErr' = [via |-> "new", kind |-> "BrokerError", of |-> 0]
    /\ UNCHANGED <<message, nextMsg, input, inflight, successes, errs,
                   signalled, fpc, suc, acksOut, producer, pubCtxDone,
                   closeErrs, cvars, doomed, callerDrains>>

\* lines 60-83: the producer is created and the forwarder goroutine started
NewProducer ==
    /\ ppc = "start"
    /\ ppc' = "select"
    /\ producer' = "open"
    /\ fpc' = "range"
    /\ UNCHANGED <<message, nextMsg, input, inflight, successes, errs,
                   signalled, suc, acksOut, pubCtxDone, pubErr, closeErrs,
                   cvars, doomed, callerDrains>>

\* lines 86-97: a message is taken from `messages` and the broker message
\* built, with the message as Metadata
TakeMessage ==
    /\ ppc = "select"
    /\ nextMsg <= MaxMsgs
    /\ message' = MetadataOf(nextMsg)
    /\ nextMsg' = nextMsg + 1
    /\ ppc' = "input"
    /\ UNCHANGED <<input, inflight, successes, errs, signalled, fpc, suc,
                   acksOut, producer, pubCtxDone, pubErr, closeErrs, cvars, doomed, callerDrains>>

\* line 98: input <- message completes
SendInput ==
    /\ ppc = "input"
    /\ Len(input) < ChanBuf
    /\ input' = Append(input, message)
    /\ message' = 0
    /\ ppc' = "select"
    /\ UNCHANGED <<nextMsg, inflight, successes, errs, signalled, fpc, suc,
                   acksOut, producer, pubCtxDone, pubErr, closeErrs, cvars, doomed, callerDrains>>

\* lines 99-100 and 65, 70: cancellation: the loop returns nil and
\* PublishMessages calls producer.Close()
PublishCancelled ==
    /\ ppc = "select"
    /\ pubCtxDone
    /\ pubErr' = LoopCancelled
    /\ ppc' = "closing"
    /\ producer' = "closing"
    /\ UNCHANGED <<message, nextMsg, input, inflight, successes, errs,
                   signalled, fpc, suc, acksOut, pubCtxDone, closeErrs, cvars, doomed, callerDrains>>

\* lines 101-102 and 65-67: a send error is taken from `errs`: the loop
\* returns it and PublishMessages calls producer.Close()
PublishError ==
    /\ ppc = "select"
    /\ errs # <<>>
    /\ pubErr' = LoopError(Head(errs))
    /\ errs' = Tail(errs)
    /\ ppc' = "closing"
    /\ producer' = "closing"
    /\ UNCHANGED <<message, nextMsg, input, inflight, successes, signalled,
                   fpc, suc, acksOut, pubCtxDone, closeErrs, cvars, doomed, callerDrains>>

\* lines 67 and 70: Close collects an error event
CloseCollectsError ==
    /\ ppc = "closing"
    /\ errs # <<>>
    /\ errs' = Tail(errs)
    /\ closeErrs' = closeErrs + 1
    /\ UNCHANGED <<ppc, message, nextMsg, input, inflight, successes,
                   signalled, fpc, suc, acksOut, producer, pubCtxDone, pubErr,
                   cvars, doomed, callerDrains>>

\* lines 67 and 70: the reader Close starts on Successes() discards a success
CloseDiscardsSuccess ==
    /\ producer \in {"closing", "closed"}
    /\ successes # <<>>
    /\ successes' = Tail(successes)
    /\ UNCHANGED <<ppc, message, nextMsg, input, inflight, errs, signalled,
                   fpc, suc, acksOut, producer, pubCtxDone, pubErr, closeErrs,
                   cvars, doomed, callerDrains>>

\* lines 67 and 70: the producer has flushed what it held and closes its
\* channels
ProducerShutDown ==
    /\ producer = "closing"
    /\ input = <<>>
    /\ inflight = {}
    /\ producer' = "closed"
    /\ UNCHANGED <<ppc, message, nextMsg, input, inflight, successes, errs,
                   signalled, fpc, suc, acksOut, pubCtxDone, pubErr, closeErrs,
                   cvars, doomed, callerDrains>>

\* lines 66-70: Close returns once Errors() is closed and empty, and
\* PublishMessages returns
CloseReturns ==
    /\ ppc = "closing"
    /\ producer = "closed"
    /\ errs = <<>>
    /\ pubErr' = PublishResult(pubErr, CloseResult(closeErrs))
    /\ ppc' = "done"
    /\ UNCHANGED <<message, nextMsg, input, inflight, successes, errs,
                   signalled, fpc, suc, acksOut, producer, pubCtxDone,
                   closeErrs, cvars, doomed, callerDrains>>

\* line 80: the forwarder takes a success from `successes`
ForwarderReceives ==
    /\ fpc = "range"
    /\ successes # <<>>
    /\ suc' = Head(successes)
    /\ successes' = Tail(successes)
    /\ fpc' = "send"
    /\ UNCHANGED <<ppc, message, nextMsg, input, inflight, errs, signalled,
                   acksOut, producer, pubCtxDone, pubErr, closeErrs, cvars, doomed, callerDrains>>

\* line 81: acks <- suc.Metadata completes: the caller receives it
ForwarderSends ==
    /\ fpc = "send"
    /\ callerDrains
    /\ acksOut' = EmitAck(acksOut, AckOf(suc))
    /\ suc' = 0
    /\ fpc' = "range"
    /\ UNCHANGED <<ppc, message, nextMsg, input, inflight, successes, errs,
                   signalled, producer, pubCtxDone, pubErr, closeErrs, cvars, doomed, callerDrains>>

\* lines 80-83: `successes` is closed and empty: the range loop ends
ForwarderExits ==
    /\ fpc = "range"
    /\ successes = <<>>
    /\ producer = "closed"
    /\ fpc' = "exit"
    /\ UNCHANGED <<ppc, message, nextMsg, input, inflight, successes, errs,
                   signalled, suc, acksOut, producer, pubCtxDone, pubErr,
                   closeErrs, cvars, doomed, callerDrains>>

\* the broker producer takes a message from Input(); it holds at most
\* MaxInflight messages, and whether the send of the message succeeds is the
\* broker's matter
BrokerTakesInput ==
    /\ producer \in {"open", "closing"}
    /\ input # <<>>
    /\ Cardinality(inflight) < MaxInflight
    /\ inflight' = inflight \cup {Head(input)}
    /\ \E ok \in BOOLEAN :
         doomed' = IF ok THEN doomed ELSE doomed \cup {Head(input)}
    /\ input' = Tail(input)
    /\ UNCHANGED <<ppc, message, nextMsg, successes, errs, signalled, fpc,
                   suc, acksOut, producer, pubCtxDone, pubErr, closeErrs, cvars,
                   callerDrains>>

\* the broker producer signals the success of a message on Successes(); it
\* blocks while nobody reads the channel
BrokerSucceeds ==
    /\ producer \in {"open", "closing"}
    /\ Len(successes) < ChanBuf
    /\ \E m \in inflight \ doomed :
         /\ inflight' = inflight \ {m}
         /\ successes' = Append(successes, m)
         /\ signalled' = Append(signalled, m)
    /\ UNCHANGED <<ppc, message, nextMsg, input, errs, fpc, suc, acksOut,
                   producer, pubCtxDone, pubErr, closeErrs, cvars, doomed,
                   callerDrains>>

\* the broker producer signals the send error of a message on Errors(); it
\* blocks while nobody reads the channel
BrokerFails ==
    /\ producer \in {"open", "closing"}
    /\ Len(errs) < ChanBuf
    /\ \E m \in doomed :
         /\ inflight' = inflight \ {m}
         /\ doomed' = doomed \ {m}
         /\ errs' = Append(errs, m)
    /\ UNCHANGED <<ppc, message, nextMsg, input, successes, signalled, fpc,
                   suc, acksOut, producer, pubCtxDone, pubErr, closeErrs, cvars,
                   callerDrains>>

\* the context of PublishMessages is cancelled
PublishCancel ==
    /\ ppc \in {"select", "input"}
    /\ ~pubCtxDone
    /\ pubCtxDone' = TRUE
    /\ UNCHANGED <<ppc, message, nextMsg, input, inflight, successes, errs,
                   signalled, fpc, suc, acksOut, producer, pubErr, closeErrs,
                   cvars, doomed, callerDrains>>

\* the caller stops receiving from the acknowledgment stream once
\* PublishMessages has returned
CallerStopsDraining ==
    /\ ppc = "done"
    /\ callerDrains
    /\ callerDrains' = FALSE
    /\ UNCHANGED <<ppc, message, nextMsg, input, inflight, successes, errs,
                   signalled, fpc, suc, acksOut, producer, pubCtxDone, pubErr,
                   closeErrs, cvars, doomed>>

PNext ==
    \/ NewProducerFails
    \/ NewProducer
    \/ TakeMessage
    \/ SendInput
    \/ PublishCancelled
    \/ PublishError
    \/ CloseCollectsError
    \/ CloseDiscardsSuccess
    \/ ProducerShutDown
    \/ CloseReturns
    \/ ForwarderReceives
    \/ ForwarderSends
    \/ ForwarderExits
    \/ BrokerTakesInput
    \/ BrokerSucceeds
    \/ BrokerFails
    \/ PublishCancel
    \/ CallerStopsDraining

\* a ConsumeMessages session; no PublishMessages call runs
Init == CInit /\ PInit

Next == CNext

Spec == Init /\ [][Next]_vars

\* a PublishMessages call; no ConsumeMessages session runs
PublishInit == PInit /\ CInit /\ msgCap = 0 /\ ackCap = 0

PublishSpec == PublishInit /\ [][PNext]_vars

\* the steps of PublishMessages, its forwarder and the broker producer; the
\* rest of PNext are inputs: the caller's messages, the cancellation, the
\* caller giving up the acknowledgment stream
PublishProgress ==
    \/ SendInput
    \/ PublishCancelled
    \/ PublishError
    \/ CloseCollectsError
    \/ ProducerShutDown
    \/ CloseReturns
    \/ ForwarderReceives
    \/ ForwarderSends
    \/ ForwarderExits
    \/ BrokerTakesInput
    \/ BrokerSucceeds
    \/ BrokerFails

\* the scheduling of a PublishMessages call: a goroutine that can run does
\* run, a ready case of the select of line 85 is chosen sooner or later (the
\* choice among ready cases is random), the broker producer works off what it
\* holds, and the caller receives the acknowledgments offered to it
PublishFairness ==
    /\ WF_vars(SendInput)
    /\ SF_vars(PublishCancelled)
    /\ SF_vars(PublishError)
    /\ WF_vars(CloseCollectsError)
    /\ WF_vars(ProducerShutDown)
    /\ WF_vars(CloseReturns)
    /\ WF_vars(ForwarderReceives)
    /\ WF_vars(ForwarderSends)
    /\ WF_vars(ForwarderExits)
    /\ WF_vars(BrokerTakesInput)
    /\ WF_vars(BrokerSucceeds)
    /\ WF_vars(BrokerFails)

PublishFairSpec == PublishSpec /\ PublishFairness


(***************************************************************************)
(* A session with unbuffered `messages` and `acks` and a sequential        *)
(* caller: it receives one message, then acknowledges that message, and    *)
(* so on.  The caller is receiving when it has acknowledged all it         *)
(* received, and is sending the acknowledgment of its last message         *)
(* otherwise.  The context is never cancelled.                             *)
(***************************************************************************)
CallerReceiving == Len(received) = acksSent

\* line 232: the delivery send meets the caller's receive
SeqDeliver ==
    /\ CallerReceiving
    /\ SendToReceiver

\* line 236: the caller's send of the acknowledgment of the message it
\* received last meets the receive of the select
SeqAck ==
    /\ ~CallerReceiving
    /\ pc = "select"
    /\ HandleAck(received[acksSent + 1])
    /\ acksSent' = acksSent + 1
    /\ UNCHANGED <<cur, msgChan, ackChan, msgCap, ackCap, received, brokerNext,
                   ctxDone, errState, sess, prevUnacked, pvars>>

SeqInit == CInit /\ PInit /\ msgCap = 0 /\ ackCap = 0

\* the steps of the session and of its caller
SeqProgress ==
    \/ NewConsumer
    \/ RecvBrokerMessage
    \/ SeqDeliver
    \/ SeqAck
    \/ RecvBrokerError

SeqNext ==
    \/ SeqProgress
    \/ BrokerFault

SeqSpec == SeqInit /\ [][SeqNext]_vars

\* every goroutine that can take a step takes one; a select whose error case
\* is ready again and again picks it in the end
SeqFairness ==
    /\ WF_vars(NewConsumer)
    /\ WF_vars(RecvBrokerMessage)
    /\ WF_vars(SeqDeliver)
    /\ WF_vars(SeqAck)
    /\ SF_vars(RecvBrokerError)

SeqFairSpec == SeqSpec /\ SeqFairness

(***************************************************************************)
(* Properties of the consumer session.                                     *)
(***************************************************************************)

\* C1: the acknowledgments accepted without error are a prefix, in order and
\* by identity, of the messages the caller received on the delivery stream.
C1_AcceptedPrefixOfDelivered == IsPrefix(accepted, received)

C1_Witness == Len(accepted) = 2 /\ Len(received) = 3

\* C2: an acknowledgment taken while the ledger is non-empty and that is not
\* the ledger head ends the session with InvalidAckError{Acked: the
\* acknowledgment, Expected: the head}; no commit is made for it, and the head
\* is not committed.
C2_HeadMismatchRejected ==
    (ackSeen.seen /\ ackSeen.head # NilMsg /\ ackSeen.ack # ackSeen.head) =>
        /\ pc = "done"
        /\ rerr = InvalidAckError(ackSeen.ack, ackSeen.head)
        /\ forAcking # <<>> /\ Head(forAcking) = ackSeen.head
        /\ Len(commits) = ackSeen.ncommits
        /\ MarkOffset(ackSeen.head) \notin Range(commits)

\* deliveries [m1, m2], first acknowledgment m2
C2_Witness ==
    /\ rerr.kind = "InvalidAckError"
    /\ Len(received) = 2
    /\ rerr.Acked = received[2]
    /\ rerr.Expected = received[1]
    /\ commits = <<>>

\* C3: an acknowledgment taken while the ledger is empty ends the session with
\* InvalidAckError{Acked: the acknowledgment, Expected: nil} and no commit.
C3_EmptyLedgerRejected ==
    (ackSeen.seen /\ ackSeen.head = NilMsg) =>
        /\ pc = "done"
        /\ rerr = InvalidAckError(ackSeen.ack, NilMsg)
        /\ Len(commits) = ackSeen.ncommits

\* everything delivered was acknowledged, and a delivered message is
\* acknowledged again
C3_Witness ==
    /\ rerr.kind = "InvalidAckError"
    /\ rerr.Expected = NilMsg
    /\ Len(accepted) = 2
    /\ rerr.Acked \in Range(accepted)

\* C4: the sequence of MarkOffset calls is the sequence of accepted
\* acknowledgments: one commit per accepted acknowledgment, for its own
\* partition and offset, and only for messages the caller received and
\* acknowledged.
C4_CommitsAreAcceptedAcks ==
    /\ Len(commits) = Len(accepted)
    /\ \A i \in 1..Len(commits) :
         /\ commits[i] = MarkOffset(accepted[i])
         /\ accepted[i] \in Range(received)

C4_Witness ==
    /\ Len(commits) = 2
    /\ commits[1].partition # commits[2].partition
    /\ Len(forAcking) = 1

\* C5: the offsets of successive commits of one partition are strictly
\* increasing (the broker delivers each partition in offset order).
C5_CommitsIncreasePerPartition ==
    \A i, j \in 1..Len(commits) :
        (i < j /\ commits[i].partition = commits[j].partition) =>
            commits[i].offset < commits[j].offset

\* two commits of one partition around a commit of another partition
C5_Witness ==
    /\ Len(commits) = 3
    /\ commits[1].partition = commits[3].partition
    /\ commits[1].partition # commits[2].partition

\* C6 as stated: when cancellation wins the delivery send the message is
\* neither in the ledger nor received by the caller, and every ledger entry
\* was received by the caller.
C6_LedgerEntryWasReceived ==
    /\ rerr.via = "sendctx" =>
           cur \notin Range(forAcking) \cup Range(received)
    /\ \A m \in Range(forAcking) : m \in Range(received)

\* C6, amended: when cancellation wins the delivery send the message is
\* neither in the ledger nor handed to the delivery stream, and every ledger
\* entry is a message whose send on the delivery stream completed: the caller
\* received it or it waits in the stream's buffer.
C6_LedgerEntryWasSent ==
    /\ rerr.via = "sendctx" =>
           cur \notin Range(forAcking) \cup Range(received) \cup Range(msgChan)
    /\ \A m \in Range(forAcking) : m \in Range(received) \cup Range(msgChan)

\* cancellation won a delivery send while an earlier message, already in the
\* ledger, still waits in the buffer of the delivery stream
C6_Witness ==
    /\ rerr.via = "sendctx"
    /\ cur # NilMsg
    /\ Len(forAcking) = 2
    /\ \E m \in Range(forAcking) : m \in Range(msgChan)

\* C7: a session that ends because the context was cancelled returns nil.
C7_CancelReturnsNil ==
    rerr.via \in {"ctx", "sendctx"} => rerr.kind = "nil"

\* C8: on every return after the consumer handle was created, Close was
\* called on it.
C8_ClosedOnEveryExit ==
    (pc = "done" /\ rerr.via # "new") => closeCalls >= 1

\* the InvalidAckError exits, which do not close explicitly
C8_Witness ==
    /\ pc = "done"
    /\ rerr.kind = "InvalidAckError"
    /\ closeCalls = 1

\* the messages taken from the broker in the current session
TakenFromBroker ==
    {MarkOffset(m) : m \in Range(received) \cup Range(msgChan) \cup ({cur} \ {NilMsg})}

\* C9: the committed position of a partition is at or below (the last
\* committed offset is below) every ledger entry of that partition; so every
\* entry left in the ledger of a terminated session is, in the fresh session
\* resumed from the committed positions, delivered again: the broker has it
\* still to deliver or delivered it already.
C9_UnackedAboveCommitted ==
    /\ \A m \in Range(forAcking) : committed[m.partition] <= m.offset
    /\ \A u \in prevUnacked :
         u.offset >= brokerNext[u.partition] \/ u \in TakenFromBroker

\* a commit was made in the terminated session, and what it left in the
\* ledger was received again in the fresh session
C9_Witness ==
    /\ sess = 2
    /\ prevUnacked # {}
    /\ \E p \in Partitions : committed[p] > 0
    /\ \A u \in prevUnacked : \E m \in Range(received) : MarkOffset(m) = u

(***************************************************************************)
(* Properties of PublishMessages.                                          *)
(***************************************************************************)

\* the call has returned, the producer is shut down and the forwarder has
\* left its loop: nothing is emitted on the acknowledgment stream any more
PublishQuiescent == ppc = "done" /\ fpc = "exit"

\* C10: a message whose success the broker signalled appears exactly once on
\* the acknowledgment stream: never twice, and, once the call has returned and
\* the forwarder has finished, not zero times.
C10_SuccessAckedExactlyOnce ==
    /\ \A i, j \in 1..Len(acksOut) : acksOut[i] = acksOut[j] => i = j
    /\ PublishQuiescent => \A i \in 1..Len(signalled) : signalled[i] \in Range(acksOut)

\* C11: a send error signalled on the producer's error stream while
\* PublishMessages runs and the context is not cancelled makes PublishMessages
\* terminate and return that error, also when the loop is handing a message
\* to the broker's input at that moment.
C11_ErrorTerminatesPublish ==
    \A m \in 1..MaxMsgs :
        (ppc \in {"select", "input"} /\ errs # <<>> /\ Head(errs) = m)
            ~> (pubCtxDone \/ (ppc = "done" /\ pubErr = LoopError(m)))

\* C12: once PublishMessages has returned a broker send error, nothing more is
\* emitted on the acknowledgment stream.
C12_NoAckAfterErrorReturn ==
    [][(ppc = "done" /\ pubErr.via = "errs") => acksOut' = acksOut]_vars

\* C13: a PublishMessages call that ends because the context was cancelled
\* returns nil.
C13_PublishCancelReturnsNil ==
    (ppc = "done" /\ pubErr.via = "ctx") => pubErr.kind = "nil"

\* the place of message m in sequence s (0: not in it)
Pos(s, m) == IF m \in Range(s) THEN CHOOSE i \in 1..Len(s) : s[i] = m ELSE 0

\* C14: the messages emitted on the acknowledgment stream are in the order in
\* which the broker signalled their successes.
C14_AcksInSuccessOrder ==
    /\ \A i \in 1..Len(acksOut) : acksOut[i] \in Range(signalled)
    /\ \A i, j \in 1..Len(acksOut) :
         i < j => Pos(signalled, acksOut[i]) < Pos(signalled, acksOut[j])

\* the acknowledgments are not in the order the messages were sent in
C14_Witness ==
    /\ Len(acksOut) = 3
    /\ acksOut[1] > acksOut[2]

\* C15: while the loop is handing a message to the broker's input, the call is
\* never stuck: the send, the broker producer or the forwarder can take a
\* step, so that a pending cancellation or broker error is acted upon.
C15_PendingSendNotStuck ==
    ppc = "input" => ENABLED PublishProgress

\* C16: when PublishMessages has returned, the forwarder has left its loop or
\* can still take a step towards leaving it, also when the caller has stopped
\* receiving acknowledgments.
C16_ForwarderExitsAfterReturn ==
    (ppc = "done" /\ fpc \in {"range", "send"}) =>
        ENABLED (ForwarderReceives \/ ForwarderSends \/ ForwarderExits)

\* C17: an error signalled on the consumer's error stream during a session
\* whose context is never cancelled makes ConsumeMessages terminate and return
\* that error, also when a delivery send is pending when it arrives.
C17_BrokerErrorTerminatesConsume ==
    (errState = "pending") ~>
        (pc = "done" /\ rerr = OtherError("errs", "BrokerError"))

\* the messages whose send on the delivery stream has completed, in order
Delivered == received \o msgChan

\* C18: the ledger is the sequence of delivered messages without its first
\* |accepted| elements.
C18_LedgerIsDeliveredMinusAccepted ==
    /\ Len(accepted) <= Len(Delivered)
    /\ forAcking = SubSeq(Delivered, Len(accepted) + 1, Len(Delivered))

\* one acknowledgment accepted, two delivered messages waiting in order
C18_Witness ==
    /\ Len(accepted) = 1
    /\ Len(forAcking) = 2
    /\ Len(Delivered) = 3

\* C19: an acknowledgment that is not the ledger head but carries the same
\* payload as the head is rejected with InvalidAckError naming both.
C19_SamePayloadOtherHandleRejected ==
    (/\ ackSeen.seen
     /\ ackSeen.head # NilMsg
     /\ ackSeen.ack # ackSeen.head
     /\ Data(ackSeen.ack) = Data(ackSeen.head)) =>
        /\ pc = "done"
        /\ rerr = InvalidAckError(ackSeen.ack, ackSeen.head)
        /\ Len(commits) = ackSeen.ncommits

\* two delivered handles with the same payload; the second is acknowledged
\* while the first is the head
C19_Witness ==
    /\ rerr.kind = "InvalidAckError"
    /\ rerr.Acked \in Range(received)
    /\ rerr.Expected \in Range(received)
    /\ rerr.Acked # rerr.Expected
    /\ Data(rerr.Acked) = Data(rerr.Expected)

\* C20: with unbuffered streams and a sequential caller, a session without
\* cancellation and broker error is never stuck while a delivered message
\* waits to be accepted: the session or its caller can take a step.
C20_SequentialCallerNotStuck ==
    (errState = "none" /\ Len(accepted) < Len(received)) => ENABLED SeqProgress

=============================================================================
